---- MODULE Spec2Model ----
(***************************************************************************)
(* The queuing port of src/main.rs: a ring of MSG_COUNT slots of MSG_SIZE  *)
(* bytes with two atomic cursors (QueuingPort), and the process-wide       *)
(* binding of one QueuingPort to a named shared-memory region              *)
(* (get_shared_queue and the two statics it keeps).                        *)
(*                                                                         *)
(* Every atomic load, slot access and atomic store of enqueue / dequeue is *)
(* one step of the calling thread, and so is every statement of            *)
(* get_shared_queue; threads interleave freely between steps.              *)
(***************************************************************************)
EXTENDS Integers, Sequences, FiniteSets, TLC

\* ---------------------------------------------------------------- constants

MSG_COUNT == 16
MSG_SIZE == 4

\* Bounds of the model.
NThreads == 4
\* Each thread t sends the items t*10 + j, j = 0 .. NItems-1, round and round.
NItems == 5
\* Calls a thread makes through enqueue_shared / dequeue_shared.
MaxCalls == 2
\* The counters of successful operations stop counting here.
MaxCount == 34

Threads == 1 .. NThreads
Names == {"a", "b"}
NoName == "-"
NoItem == -1
Unbounded == -1

\* ------------------------------------------------------------ the i32 slots

Pow256(k) == IF k = 0 THEN 1 ELSE IF k = 1 THEN 256 ELSE IF k = 2 THEN 65536 ELSE 16777216

\* ptr.write(item) at a byte offset: the MSG_SIZE bytes of the i32, low byte first.
\* (\div rounds down, so a negative item gets its two's complement bytes.)
WriteI32(buffer, offset, item) ==
    [i \in DOMAIN buffer |->
        IF i >= offset /\ i < offset + MSG_SIZE
        THEN (item \div Pow256(i - offset)) % 256
        ELSE buffer[i]]

\* The byte at offset + k, the top byte of the i32 taken with its sign.
SignedByte(buffer, offset, k) ==
    IF k = MSG_SIZE - 1 /\ buffer[offset + k] >= 128
    THEN buffer[offset + k] - 256
    ELSE buffer[offset + k]

RECURSIVE SumBytes(_, _, _)
SumBytes(buffer, offset, k) ==
    IF k = MSG_SIZE THEN 0
    ELSE SignedByte(buffer, offset, k) * Pow256(k) + SumBytes(buffer, offset, k + 1)

\* ptr.read() at a byte offset.
ReadI32(buffer, offset) == SumBytes(buffer, offset, 0)

\* QueuingPort::new()
NewPort ==
    [buffer |-> [i \in 0 .. MSG_COUNT * MSG_SIZE - 1 |-> 0],
     write_index |-> 0,
     read_index |-> 0]

\* -------------------------------------------------------------------- state

VARIABLES
    scenario,          \* which program runs (who calls what, and how)
    port,              \* the QueuingPort objects: port[1] a private one or the regions
    os_name,           \* os_name[r]: the os_id region r was created under
    mapped,            \* the regions whose Shmem has not been dropped
    SHARED_QUEUE_PTR,  \* 0 is null, else a region
    SHMEM_HANDLE,      \* 0 is None, else Some(the Shmem of a region)
    pc,                \* pc[t]: where thread t is
    thr,               \* thr[t]: the arguments and locals of thread t's call
    ret,               \* ret[t]: what thread t's last call returned
    budget,            \* budget[t]: calls thread t may still make
    nextJ,             \* nextJ[t]: j of the next item of thread t
    pending,           \* pending[r]: the items port r accepted and has not delivered
    outstanding,       \* outstanding[n]: accepted under name n, not delivered under n
    first,             \* first[n]: the binding the first get_shared_queue(n) returned
    nEnq,              \* successful enqueues so far (up to MaxCount)
    nDeq               \* successful dequeues so far (up to MaxCount)

vars == <<scenario, port, os_name, mapped, SHARED_QUEUE_PTR, SHMEM_HANDLE, pc, thr,
          ret, budget, nextJ, pending, outstanding, first, nEnq, nDeq>>

\* ---------------------------------------------------------------- programs

\* seq          one thread enqueues and dequeues on a private QueuingPort
\* spsc         thread 1 enqueues, thread 2 dequeues, on a private QueuingPort
\* seq_shared   one thread, enqueue_shared / dequeue_shared, one name
\* spsc_shared  thread 1 enqueue_shared, thread 2 dequeue_shared, the same name
\* names        as spsc_shared, and thread 3 calls dequeue_shared with another name
Scenarios == {"seq", "spsc", "seq_shared", "spsc_shared", "names"}
\* stress       the stress test: threads 1 and 2 call enqueue_shared with one name,
\*              and once they are joined threads 3 and 4 call dequeue_shared
\*              (the program of SpecStress)

Role(t) ==
    CASE scenario = "seq" -> IF t = 1 THEN "both" ELSE "off"
      [] scenario = "spsc" -> IF t = 1 THEN "producer" ELSE IF t = 2 THEN "consumer" ELSE "off"
      [] scenario = "seq_shared" -> IF t = 1 THEN "both" ELSE "off"
      [] scenario = "spsc_shared" ->
            IF t = 1 THEN "producer" ELSE IF t = 2 THEN "consumer" ELSE "off"
      [] scenario = "names" ->
            IF t = 1 THEN "producer" ELSE IF t = 2 THEN "consumer"
            ELSE IF t = 3 THEN "consumer" ELSE "off"
      [] scenario = "stress" ->
            IF t \in {1, 2} THEN "producer" ELSE IF t \in {3, 4} THEN "consumer" ELSE "off"

Shared == scenario \in {"seq_shared", "spsc_shared", "names", "stress"}

NameOf(t) ==
    IF ~Shared THEN NoName ELSE IF scenario = "names" /\ t = 3 THEN "b" ELSE "a"

OpsOf(role) ==
    CASE role = "producer" -> {"enqueue"}
      [] role = "consumer" -> {"dequeue"}
      [] role = "both" -> {"enqueue", "dequeue"}
      [] OTHER -> {}

\* The item of the stress test's producer i at its step j: i * 10 + j.
Item(t) == t * 10 + nextJ[t]

\* The calls a thread makes: any number on a private port; through the shared
\* binding MaxCalls each, and twice that when the thread is alone (the basic test
\* makes two enqueue_shared and two dequeue_shared).
Budget ==
    IF ~Shared THEN Unbounded
    ELSE IF scenario = "seq_shared" THEN 2 * MaxCalls ELSE MaxCalls

NoCall ==
    [op |-> "none", item |-> NoItem, os_id |-> NoName, q |-> 0, shmem |-> 0,
     write |-> 0, next |-> 0, read |-> 0, value |-> 0, sole |-> NoItem, after |-> 0]

NoRet == [op |-> "none", kind |-> "none", value |-> 0]

\* The state every program starts in.
Start ==
    /\ port = IF Shared THEN <<>> ELSE <<NewPort>>
    /\ os_name = IF Shared THEN <<>> ELSE <<NoName>>
    /\ mapped = IF Shared THEN {} ELSE {1}
    /\ SHARED_QUEUE_PTR = 0
    /\ SHMEM_HANDLE = 0
    /\ pc = [t \in Threads |-> "idle"]
    /\ thr = [t \in Threads |-> NoCall]
    /\ ret = [t \in Threads |-> NoRet]
    /\ budget = [t \in Threads |-> Budget]
    /\ nextJ = [t \in Threads |-> 0]
    /\ pending = IF Shared THEN <<>> ELSE << <<>> >>
    /\ outstanding = [n \in Names |-> <<>>]
    /\ first = [n \in Names |-> 0]
    /\ nEnq = 0
    /\ nDeq = 0

Init == scenario \in Scenarios /\ Start

StressInit == scenario = "stress" /\ Start

\* ------------------------------------------------------------------ helpers

\* for h in handles { h.join().unwrap(); }: the consumers of the stress test are
\* spawned once every producer has made its calls and ended without a panic.
Joined ==
    \A u \in Threads : Role(u) = "producer" => (pc[u] = "idle" /\ budget[u] = 0)

Spawned(t) == (scenario = "stress" /\ Role(t) = "consumer") => Joined

OpStart(op) == IF op = "enqueue" THEN "enq_load_write" ELSE "deq_load_read"

Q(t) == port[thr[t].q]

Linked == {os_name[r] : r \in mapped}

Count(n) == IF n < MaxCount THEN n + 1 ELSE n

\* first, once get_shared_queue(n) has returned the binding r.
Bound(n, r) == IF first[n] = 0 THEN [first EXCEPT ![n] = r] ELSE first

Panic(t, why) ==
    /\ pc' = [pc EXCEPT ![t] = "panicked"]
    /\ ret' = [ret EXCEPT ![t] = [op |-> "get_shared_queue", kind |-> why, value |-> 0]]

Return(t, op, kind, value) ==
    /\ pc' = [pc EXCEPT ![t] = "idle"]
    /\ thr' = [thr EXCEPT ![t] = [NoCall EXCEPT !.q = thr[t].q]]
    /\ ret' = [ret EXCEPT ![t] = [op |-> op, kind |-> kind, value |-> value]]

\* --------------------------------------------------------------- the caller

\* A thread calls enqueue / dequeue on the private port, or enqueue_shared /
\* dequeue_shared with its name.
Call(t) ==
    /\ pc[t] = "idle"
    /\ budget[t] # 0
    /\ Spawned(t)
    /\ \E op \in OpsOf(Role(t)) :
          /\ thr' = [thr EXCEPT ![t] =
                        [NoCall EXCEPT
                            !.op = op,
                            !.item = IF op = "enqueue" THEN Item(t) ELSE NoItem,
                            !.os_id = NameOf(t),
                            !.q = IF Shared THEN 0 ELSE 1,
                            !.sole = IF Shared /\ op = "dequeue"
                                        /\ Len(outstanding[NameOf(t)]) = 1
                                     THEN outstanding[NameOf(t)][1] ELSE NoItem,
                            !.after = IF Shared THEN first[NameOf(t)] ELSE 0]]
          /\ pc' = [pc EXCEPT ![t] = IF Shared THEN "gsq_check" ELSE OpStart(op)]
    /\ budget' = [budget EXCEPT ![t] = IF @ > 0 THEN @ - 1 ELSE @]
    /\ UNCHANGED <<scenario, port, os_name, mapped, SHARED_QUEUE_PTR, SHMEM_HANDLE,
                   ret, nextJ, pending, outstanding, first, nEnq, nDeq>>

\* --------------------------------------------------------- get_shared_queue

\* if !SHARED_QUEUE_PTR.is_null() { return &mut *SHARED_QUEUE_PTR; }
GsqCheck(t) ==
    /\ pc[t] = "gsq_check"
    /\ IF SHARED_QUEUE_PTR # 0
       THEN /\ thr' = [thr EXCEPT ![t].q = SHARED_QUEUE_PTR]
            /\ pc' = [pc EXCEPT ![t] = OpStart(thr[t].op)]
            /\ first' = Bound(thr[t].os_id, SHARED_QUEUE_PTR)
       ELSE /\ pc' = [pc EXCEPT ![t] = "gsq_create"]
            /\ UNCHANGED <<thr, first>>
    /\ UNCHANGED <<scenario, port, os_name, mapped, SHARED_QUEUE_PTR, SHMEM_HANDLE,
                   ret, budget, nextJ, pending, outstanding, nEnq, nDeq>>

\* ShmemConf::new().size(size).os_id(os_id).create().expect(..): create makes a
\* new mapping and fails when one of that os_id exists; the provider may also fail
\* for want of resources. expect panics on the failure.
GsqCreate(t) ==
    /\ pc[t] = "gsq_create"
    /\ \E ok \in BOOLEAN :
          IF ~ok
          THEN /\ Panic(t, "unavailable")
               /\ UNCHANGED <<port, os_name, pending, mapped, thr>>
          ELSE IF thr[t].os_id \in Linked
          THEN /\ Panic(t, "exists")
               /\ UNCHANGED <<port, os_name, pending, mapped, thr>>
          ELSE /\ port' = Append(port, NewPort)
               /\ os_name' = Append(os_name, thr[t].os_id)
               /\ pending' = Append(pending, <<>>)
               /\ mapped' = mapped \cup {Len(port) + 1}
               /\ thr' = [thr EXCEPT ![t].shmem = Len(port) + 1]
               /\ pc' = [pc EXCEPT ![t] = "gsq_init"]
               /\ ret' = ret
    /\ UNCHANGED <<scenario, SHARED_QUEUE_PTR, SHMEM_HANDLE, budget, nextJ,
                   outstanding, first, nEnq, nDeq>>

\* let ptr = shmem.as_ptr() as *mut QueuingPort; ptr.write(QueuingPort::new());
GsqInit(t) ==
    /\ pc[t] = "gsq_init"
    /\ port' = [port EXCEPT ![thr[t].shmem] = NewPort]
    /\ pending' = [pending EXCEPT ![thr[t].shmem] = <<>>]
    /\ pc' = [pc EXCEPT ![t] = "gsq_set_handle"]
    /\ UNCHANGED <<scenario, os_name, mapped, SHARED_QUEUE_PTR, SHMEM_HANDLE, thr,
                   ret, budget, nextJ, outstanding, first, nEnq, nDeq>>

\* SHMEM_HANDLE = Some(shmem); the Shmem the static held is dropped, which
\* unmaps its region and removes its os_id.
GsqSetHandle(t) ==
    /\ pc[t] = "gsq_set_handle"
    /\ SHMEM_HANDLE' = thr[t].shmem
    /\ mapped' = mapped \ {SHMEM_HANDLE}
    /\ pc' = [pc EXCEPT ![t] = "gsq_set_ptr"]
    /\ UNCHANGED <<scenario, port, os_name, SHARED_QUEUE_PTR, thr, ret, budget,
                   nextJ, pending, outstanding, first, nEnq, nDeq>>

\* SHARED_QUEUE_PTR = ptr; &mut *ptr
GsqSetPtr(t) ==
    /\ pc[t] = "gsq_set_ptr"
    /\ SHARED_QUEUE_PTR' = thr[t].shmem
    /\ thr' = [thr EXCEPT ![t].q = thr[t].shmem]
    /\ pc' = [pc EXCEPT ![t] = OpStart(thr[t].op)]
    /\ first' = Bound(thr[t].os_id, thr[t].shmem)
    /\ UNCHANGED <<scenario, port, os_name, mapped, SHMEM_HANDLE, ret, budget,
                   nextJ, pending, outstanding, nEnq, nDeq>>

\* ------------------------------------------------------ QueuingPort::enqueue

\* A bug: the next cursor wraps one slot early, (write + 1) % (MSG_COUNT - 1).
EnqLoadWriteWrapsEarly(t) ==
    /\ pc[t] = "enq_load_write"
    /\ thr' = [thr EXCEPT ![t].write = Q(t).write_index,
                          ![t].next = (Q(t).write_index + 1) % (MSG_COUNT - 1)]
    /\ pc' = [pc EXCEPT ![t] = "enq_load_read"]
    /\ UNCHANGED <<scenario, port, os_name, mapped, SHARED_QUEUE_PTR, SHMEM_HANDLE,
                   ret, budget, nextJ, pending, outstanding, first, nEnq, nDeq>>

\* A bug: the next cursor is not reduced modulo MSG_COUNT.
EnqLoadWriteNoWrap(t) ==
    /\ pc[t] = "enq_load_write"
    /\ thr' = [thr EXCEPT ![t].write = Q(t).write_index,
                          ![t].next = Q(t).write_index + 1]
    /\ pc' = [pc EXCEPT ![t] = "enq_load_read"]
    /\ UNCHANGED <<scenario, port, os_name, mapped, SHARED_QUEUE_PTR, SHMEM_HANDLE,
                   ret, budget, nextJ, pending, outstanding, first, nEnq, nDeq>>

\* let write = self.write_index.load(Relaxed); let next = (write + 1) % MSG_COUNT;
EnqLoadWrite(t) ==
    /\ pc[t] = "enq_load_write"
    /\ thr' = [thr EXCEPT ![t].write = Q(t).write_index,
                          ![t].next = (Q(t).write_index + 1) % MSG_COUNT]
    /\ pc' = [pc EXCEPT ![t] = "enq_load_read"]
    /\ UNCHANGED <<scenario, port, os_name, mapped, SHARED_QUEUE_PTR, SHMEM_HANDLE,
                   ret, budget, nextJ, pending, outstanding, first, nEnq, nDeq>>

\* A bug: the full test compares write, not next, with read_index.
EnqLoadReadComparesWrite(t) ==
    /\ pc[t] = "enq_load_read"
    /\ IF thr[t].write = Q(t).read_index
       THEN Return(t, "enqueue", "full", 0)
       ELSE /\ pc' = [pc EXCEPT ![t] = "enq_write"]
            /\ UNCHANGED <<thr, ret>>
    /\ UNCHANGED <<scenario, port, os_name, mapped, SHARED_QUEUE_PTR, SHMEM_HANDLE,
                   budget, nextJ, pending, outstanding, first, nEnq, nDeq>>

\* A bug: no full test, the enqueue always goes on.
EnqLoadReadNeverFull(t) ==
    /\ pc[t] = "enq_load_read"
    /\ pc' = [pc EXCEPT ![t] = "enq_write"]
    /\ UNCHANGED <<scenario, port, os_name, mapped, SHARED_QUEUE_PTR, SHMEM_HANDLE,
                   thr, ret, budget, nextJ, pending, outstanding, first, nEnq, nDeq>>

\* A bug: the item is written to its slot before the full test.
EnqLoadReadWritesFirst(t) ==
    /\ pc[t] = "enq_load_read"
    /\ port' = [port EXCEPT ![thr[t].q].buffer =
                    WriteI32(@, thr[t].write * MSG_SIZE, thr[t].item)]
    /\ IF thr[t].next = Q(t).read_index
       THEN Return(t, "enqueue", "full", 0)
       ELSE /\ pc' = [pc EXCEPT ![t] = "enq_write"]
            /\ UNCHANGED <<thr, ret>>
    /\ UNCHANGED <<scenario, os_name, mapped, SHARED_QUEUE_PTR, SHMEM_HANDLE,
                   budget, nextJ, pending, outstanding, first, nEnq, nDeq>>

\* A bug: the full test looks one slot too far and refuses the fifteenth item.
EnqLoadReadFullEarly(t) ==
    /\ pc[t] = "enq_load_read"
    /\ IF (thr[t].next + 1) % MSG_COUNT = Q(t).read_index
       THEN Return(t, "enqueue", "full", 0)
       ELSE /\ pc' = [pc EXCEPT ![t] = "enq_write"]
            /\ UNCHANGED <<thr, ret>>
    /\ UNCHANGED <<scenario, port, os_name, mapped, SHARED_QUEUE_PTR, SHMEM_HANDLE,
                   budget, nextJ, pending, outstanding, first, nEnq, nDeq>>

\* A bug: write_index is stored as soon as the full test passes, before the item
\* is in its slot.
EnqLoadReadPublishesFirst(t) ==
    /\ pc[t] = "enq_load_read"
    /\ IF thr[t].next = Q(t).read_index
       THEN /\ Return(t, "enqueue", "full", 0)
            /\ port' = port
       ELSE /\ pc' = [pc EXCEPT ![t] = "enq_write"]
            /\ port' = [port EXCEPT ![thr[t].q].write_index = thr[t].next]
            /\ UNCHANGED <<thr, ret>>
    /\ UNCHANGED <<scenario, os_name, mapped, SHARED_QUEUE_PTR, SHMEM_HANDLE,
                   budget, nextJ, pending, outstanding, first, nEnq, nDeq>>

\* A bug: a full queue makes the enqueue try again instead of returning.
EnqLoadReadRetries(t) ==
    /\ pc[t] = "enq_load_read"
    /\ pc' = [pc EXCEPT ![t] = IF thr[t].next = Q(t).read_index
                                THEN "enq_load_write" ELSE "enq_write"]
    /\ UNCHANGED <<scenario, port, os_name, mapped, SHARED_QUEUE_PTR, SHMEM_HANDLE,
                   thr, ret, budget, nextJ, pending, outstanding, first, nEnq, nDeq>>

\* if next == self.read_index.load(Acquire) { return Err("Queue full"); }
EnqLoadRead(t) ==
    /\ pc[t] = "enq_load_read"
    /\ IF thr[t].next = Q(t).read_index
       THEN Return(t, "enqueue", "full", 0)
       ELSE /\ pc' = [pc EXCEPT ![t] = "enq_write"]
            /\ UNCHANGED <<thr, ret>>
    /\ UNCHANGED <<scenario, port, os_name, mapped, SHARED_QUEUE_PTR, SHMEM_HANDLE,
                   budget, nextJ, pending, outstanding, first, nEnq, nDeq>>

\* A bug: the item is written to the slot of next, not of write.
EnqWriteAtNext(t) ==
    /\ pc[t] = "enq_write"
    /\ port' = [port EXCEPT ![thr[t].q].buffer =
                    WriteI32(@, thr[t].next * MSG_SIZE, thr[t].item)]
    /\ pc' = [pc EXCEPT ![t] = "enq_store"]
    /\ UNCHANGED <<scenario, os_name, mapped, SHARED_QUEUE_PTR, SHMEM_HANDLE, thr,
                   ret, budget, nextJ, pending, outstanding, first, nEnq, nDeq>>

\* let offset = write * MSG_SIZE; ... unsafe { ptr.write(item); }
EnqWrite(t) ==
    /\ pc[t] = "enq_write"
    /\ port' = [port EXCEPT ![thr[t].q].buffer =
                    WriteI32(@, thr[t].write * MSG_SIZE, thr[t].item)]
    /\ pc' = [pc EXCEPT ![t] = "enq_store"]
    /\ UNCHANGED <<scenario, os_name, mapped, SHARED_QUEUE_PTR, SHMEM_HANDLE, thr,
                   ret, budget, nextJ, pending, outstanding, first, nEnq, nDeq>>

\* A bug (or a repair by half): the store advances the write_index of the moment,
\* not the one the call loaded.
EnqStoreAdvancesCurrent(t) ==
    /\ pc[t] = "enq_store"
    /\ port' = [port EXCEPT ![thr[t].q].write_index = (@ + 1) % MSG_COUNT]
    /\ pending' = [pending EXCEPT ![thr[t].q] = Append(@, thr[t].item)]
    /\ outstanding' = IF thr[t].os_id \in Names
                      THEN [outstanding EXCEPT ![thr[t].os_id] = Append(@, thr[t].item)]
                      ELSE outstanding
    /\ nEnq' = Count(nEnq)
    /\ nextJ' = [nextJ EXCEPT ![t] = (@ + 1) % NItems]
    /\ Return(t, "enqueue", "ok", 0)
    /\ UNCHANGED <<scenario, os_name, mapped, SHARED_QUEUE_PTR, SHMEM_HANDLE, budget,
                   first, nDeq>>

\* self.write_index.store(next, Release); Ok(())
EnqStore(t) ==
    /\ pc[t] = "enq_store"
    /\ port' = [port EXCEPT ![thr[t].q].write_index = thr[t].next]
    /\ pending' = [pending EXCEPT ![thr[t].q] = Append(@, thr[t].item)]
    /\ outstanding' = IF thr[t].os_id \in Names
                      THEN [outstanding EXCEPT ![thr[t].os_id] = Append(@, thr[t].item)]
                      ELSE outstanding
    /\ nEnq' = Count(nEnq)
    /\ nextJ' = [nextJ EXCEPT ![t] = (@ + 1) % NItems]
    /\ Return(t, "enqueue", "ok", 0)
    /\ UNCHANGED <<scenario, os_name, mapped, SHARED_QUEUE_PTR, SHMEM_HANDLE, budget,
                   first, nDeq>>

\* ------------------------------------------------------ QueuingPort::dequeue

\* let read = self.read_index.load(Relaxed);
DeqLoadRead(t) ==
    /\ pc[t] = "deq_load_read"
    /\ thr' = [thr EXCEPT ![t].read = Q(t).read_index]
    /\ pc' = [pc EXCEPT ![t] = "deq_load_write"]
    /\ UNCHANGED <<scenario, port, os_name, mapped, SHARED_QUEUE_PTR, SHMEM_HANDLE,
                   ret, budget, nextJ, pending, outstanding, first, nEnq, nDeq>>

\* A bug: the empty test compares the cursor after read with write_index.
DeqLoadWriteComparesNext(t) ==
    /\ pc[t] = "deq_load_write"
    /\ IF (thr[t].read + 1) % MSG_COUNT = Q(t).write_index
       THEN Return(t, "dequeue", "empty", 0)
       ELSE /\ pc' = [pc EXCEPT ![t] = "deq_read"]
            /\ UNCHANGED <<thr, ret>>
    /\ UNCHANGED <<scenario, port, os_name, mapped, SHARED_QUEUE_PTR, SHMEM_HANDLE,
                   budget, nextJ, pending, outstanding, first, nEnq, nDeq>>

\* A bug: read_index is advanced before the empty test.
DeqLoadWriteAdvancesFirst(t) ==
    /\ pc[t] = "deq_load_write"
    /\ port' = [port EXCEPT ![thr[t].q].read_index = (thr[t].read + 1) % MSG_COUNT]
    /\ IF thr[t].read = Q(t).write_index
       THEN Return(t, "dequeue", "empty", 0)
       ELSE /\ pc' = [pc EXCEPT ![t] = "deq_read"]
            /\ UNCHANGED <<thr, ret>>
    /\ UNCHANGED <<scenario, os_name, mapped, SHARED_QUEUE_PTR, SHMEM_HANDLE,
                   budget, nextJ, pending, outstanding, first, nEnq, nDeq>>

\* if read == self.write_index.load(Acquire) { return Err("Queue empty"); }
DeqLoadWrite(t) ==
    /\ pc[t] = "deq_load_write"
    /\ IF thr[t].read = Q(t).write_index
       THEN Return(t, "dequeue", "empty", 0)
       ELSE /\ pc' = [pc EXCEPT ![t] = "deq_read"]
            /\ UNCHANGED <<thr, ret>>
    /\ UNCHANGED <<scenario, port, os_name, mapped, SHARED_QUEUE_PTR, SHMEM_HANDLE,
                   budget, nextJ, pending, outstanding, first, nEnq, nDeq>>

\* A bug: the value is read from the slot after read.
DeqReadAhead(t) ==
    /\ pc[t] = "deq_read"
    /\ thr' = [thr EXCEPT ![t].value =
                  ReadI32(Q(t).buffer, ((thr[t].read + 1) % MSG_COUNT) * MSG_SIZE)]
    /\ pc' = [pc EXCEPT ![t] = "deq_store"]
    /\ UNCHANGED <<scenario, port, os_name, mapped, SHARED_QUEUE_PTR, SHMEM_HANDLE,
                   ret, budget, nextJ, pending, outstanding, first, nEnq, nDeq>>

\* let offset = read * MSG_SIZE; ... let value = unsafe { ptr.read() };
DeqRead(t) ==
    /\ pc[t] = "deq_read"
    /\ thr' = [thr EXCEPT ![t].value = ReadI32(Q(t).buffer, thr[t].read * MSG_SIZE)]
    /\ pc' = [pc EXCEPT ![t] = "deq_store"]
    /\ UNCHANGED <<scenario, port, os_name, mapped, SHARED_QUEUE_PTR, SHMEM_HANDLE,
                   ret, budget, nextJ, pending, outstanding, first, nEnq, nDeq>>

\* A bug: the slot of the value delivered is cleared.
DeqStoreClearsSlot(t) ==
    /\ pc[t] = "deq_store"
    /\ port' = [port EXCEPT ![thr[t].q].read_index = (thr[t].read + 1) % MSG_COUNT,
                          ![thr[t].q].buffer = WriteI32(@, thr[t].read * MSG_SIZE, 0)]
    /\ pending' = [pending EXCEPT ![thr[t].q] = IF @ = <<>> THEN @ ELSE Tail(@)]
    /\ outstanding' =
          IF thr[t].os_id \in Names /\ outstanding[thr[t].os_id] # <<>>
             /\ Head(outstanding[thr[t].os_id]) = thr[t].value
          THEN [outstanding EXCEPT ![thr[t].os_id] = Tail(@)]
          ELSE outstanding
    /\ nDeq' = Count(nDeq)
    /\ Return(t, "dequeue", "ok", thr[t].value)
    /\ UNCHANGED <<scenario, os_name, mapped, SHARED_QUEUE_PTR, SHMEM_HANDLE, budget,
                   nextJ, first, nEnq>>

\* A bug (or a repair by half): the store advances the read_index of the moment,
\* not the one the call loaded.
DeqStoreAdvancesCurrent(t) ==
    /\ pc[t] = "deq_store"
    /\ port' = [port EXCEPT ![thr[t].q].read_index = (@ + 1) % MSG_COUNT]
    /\ pending' = [pending EXCEPT ![thr[t].q] = IF @ = <<>> THEN @ ELSE Tail(@)]
    /\ outstanding' =
          IF thr[t].os_id \in Names /\ outstanding[thr[t].os_id] # <<>>
             /\ Head(outstanding[thr[t].os_id]) = thr[t].value
          THEN [outstanding EXCEPT ![thr[t].os_id] = Tail(@)]
          ELSE outstanding
    /\ nDeq' = Count(nDeq)
    /\ Return(t, "dequeue", "ok", thr[t].value)
    /\ UNCHANGED <<scenario, os_name, mapped, SHARED_QUEUE_PTR, SHMEM_HANDLE, budget,
                   nextJ, first, nEnq>>

\* self.read_index.store((read + 1) % MSG_COUNT, Release); Ok(value)
DeqStore(t) ==
    /\ pc[t] = "deq_store"
    /\ port' = [port EXCEPT ![thr[t].q].read_index = (thr[t].read + 1) % MSG_COUNT]
    /\ pending' = [pending EXCEPT ![thr[t].q] = IF @ = <<>> THEN @ ELSE Tail(@)]
    /\ outstanding' =
          IF thr[t].os_id \in Names /\ outstanding[thr[t].os_id] # <<>>
             /\ Head(outstanding[thr[t].os_id]) = thr[t].value
          THEN [outstanding EXCEPT ![thr[t].os_id] = Tail(@)]
          ELSE outstanding
    /\ nDeq' = Count(nDeq)
    /\ Return(t, "dequeue", "ok", thr[t].value)
    /\ UNCHANGED <<scenario, os_name, mapped, SHARED_QUEUE_PTR, SHMEM_HANDLE, budget,
                   nextJ, first, nEnq>>

\* ---------------------------------------------------------------- the fault

InPort(t) ==
    pc[t] \in {"enq_load_write", "enq_load_read", "enq_write", "enq_store",
               "deq_load_read", "deq_load_write", "deq_read", "deq_store"}

\* A thread's reference points into a region that has been unmapped: the access
\* may still find the bytes, or the process dies of it.
Fault(t) ==
    /\ InPort(t)
    /\ thr[t].q \notin mapped
    /\ pc' = [u \in Threads |-> "crashed"]
    /\ UNCHANGED <<scenario, port, os_name, mapped, SHARED_QUEUE_PTR, SHMEM_HANDLE,
                   thr, ret, budget, nextJ, pending, outstanding, first, nEnq, nDeq>>

\* ------------------------------------------------------------ specification

Next ==
    \E t \in Threads :
        \/ Call(t)
        \/ GsqCheck(t)
        \/ GsqCreate(t)
        \/ GsqInit(t)
        \/ GsqSetHandle(t)
        \/ GsqSetPtr(t)
        \/ EnqLoadWrite(t)
        \/ EnqLoadRead(t)
        \/ EnqWrite(t)
        \/ EnqStore(t)
        \/ DeqLoadRead(t)
        \/ DeqLoadWrite(t)
        \/ DeqRead(t)
        \/ DeqStore(t)
        \/ Fault(t)

Spec == Init /\ [][Next]_vars

\* The stress test: it uses one os_id, so no region is ever dropped and no
\* reference dangles.
NextStress ==
    \E t \in Threads :
        \/ Call(t)
        \/ GsqCheck(t)
        \/ GsqCreate(t)
        \/ GsqInit(t)
        \/ GsqSetHandle(t)
        \/ GsqSetPtr(t)
        \/ EnqLoadWrite(t)
        \/ EnqLoadRead(t)
        \/ EnqWrite(t)
        \/ EnqStore(t)
        \/ DeqLoadRead(t)
        \/ DeqLoadWrite(t)
        \/ DeqRead(t)
        \/ DeqStore(t)

SpecStress == StressInit /\ [][NextStress]_vars

\* Every program of the model.
SpecAll == (Init \/ StressInit) /\ [][Next]_vars

TypeOK ==
    /\ scenario \in Scenarios \cup {"stress"}
    /\ SHARED_QUEUE_PTR \in 0 .. Len(port)
    /\ SHMEM_HANDLE \in 0 .. Len(port)

\* ------------------------------------------------------------ vocabulary

\* One thread makes every call, each from a quiescent state.
Sequential == scenario \in {"seq", "seq_shared"}

\* At most one thread enqueues and at most one dequeues, on one name or one port.
OneProducerOneConsumer == scenario \in {"seq", "spsc", "seq_shared", "spsc_shared"}

\* The items port r accepted and has not delivered, of the port thread t is in.
Held(t) == pending[thr[t].q]

\* Both cursors have passed index MSG_COUNT - 1 at least twice.
Wrapped == nEnq >= 2 * MSG_COUNT /\ nDeq >= 2 * MSG_COUNT

\* The step in which thread t's enqueue decides between Full and going on.
EnqDecides(t) == pc[t] = "enq_load_read" /\ pc'[t] \in {"idle", "enq_write"}
\* The step in which thread t's dequeue decides between Empty and going on.
DeqDecides(t) == pc[t] = "deq_load_write" /\ pc'[t] \in {"idle", "deq_read"}
\* The steps in which thread t's enqueue / dequeue returns Ok.
EnqSucceeds(t) == pc[t] = "enq_store" /\ pc'[t] = "idle"
DeqSucceeds(t) == pc[t] = "deq_store" /\ pc'[t] = "idle"

\* The steps of its own that a call at p has left at most, 0 once it returned.
StepsLeft(p) ==
    CASE p \in {"enq_load_write", "deq_load_read"} -> 4
      [] p \in {"enq_load_read", "deq_load_write"} -> 3
      [] p \in {"enq_write", "deq_read"} -> 2
      [] p \in {"enq_store", "deq_store"} -> 1
      [] p = "idle" -> 0
      [] OTHER -> 5

\* The next step of thread t's call to enqueue or dequeue.
PortStep(t) ==
    \/ EnqLoadWrite(t)
    \/ EnqLoadRead(t)
    \/ EnqWrite(t)
    \/ EnqStore(t)
    \/ DeqLoadRead(t)
    \/ DeqLoadWrite(t)
    \/ DeqRead(t)
    \/ DeqStore(t)

\* The number of slots between the cursors of port p, which dequeue can deliver.
Distance(p) == (p.write_index - p.read_index) % MSG_COUNT

\* Slot i lies whole inside buffer b: self.buffer.as_ptr().add(i * MSG_SIZE) is
\* followed by MSG_SIZE bytes of b.
InBounds(i, b) == \A k \in 0 .. MSG_SIZE - 1 : i * MSG_SIZE + k \in DOMAIN b

\* The values a port holds between its cursors, oldest first.
Slice(p) ==
    [k \in 1 .. ((p.write_index - p.read_index) % MSG_COUNT) |->
        ReadI32(p.buffer, ((p.read_index + k - 1) % MSG_COUNT) * MSG_SIZE)]

OkDequeue(v) == [op |-> "dequeue", kind |-> "ok", value |-> v]

\* ------------------------------------------------------------------ claims

\* C1. Sequential FIFO: with one caller, an enqueue on a queue holding fewer than
\* MSG_COUNT - 1 items returns Ok and the item joins the held items at the back,
\* and a dequeue on a queue holding items returns Ok with the oldest of them; so k
\* enqueues from empty, k < MSG_COUNT, then k dequeues, return v1 .. vk in order.
SequentialFifo ==
    [][Sequential =>
        \A t \in Threads :
            /\ (EnqDecides(t) /\ Len(Held(t)) < MSG_COUNT - 1) => pc'[t] = "enq_write"
            /\ EnqSucceeds(t) =>
                  /\ ret'[t].kind = "ok"
                  /\ pending'[thr[t].q] = Append(Held(t), thr[t].item)
            /\ (DeqDecides(t) /\ Held(t) # <<>>) => pc'[t] = "deq_read"
            /\ DeqSucceeds(t) =>
                  /\ Held(t) # <<>>
                  /\ ret'[t] = OkDequeue(Head(Held(t)))]_vars

\* Fifteen items were enqueued and the fifteenth has just been dequeued, last.
SequentialFifoWitness ==
    /\ scenario = "seq"
    /\ nEnq = MSG_COUNT - 1
    /\ nDeq = MSG_COUNT - 1
    /\ pending[1] = <<>>
    /\ ret[1] = OkDequeue(10 + ((MSG_COUNT - 2) % NItems))

\* C2. SPSC safety: with one producer and one consumer, whatever the interleaving
\* of their steps, every successful dequeue returns the oldest item that was
\* accepted and not yet delivered: the values delivered are a prefix of the values
\* accepted, none lost, duplicated or reordered.
SpscPrefix ==
    [][OneProducerOneConsumer =>
        \A t \in Threads :
            DeqSucceeds(t) =>
                /\ Held(t) # <<>>
                /\ ret'[t] = OkDequeue(Head(Held(t)))]_vars

\* The consumer has taken an item past the first wrap while the producer is in the
\* middle of an enqueue.
SpscPrefixWitness ==
    /\ scenario = "spsc"
    /\ nDeq > MSG_COUNT
    /\ ret[2].kind = "ok"
    /\ pc[1] = "enq_store"
    /\ pc[2] = "deq_read"

\* C3. Capacity: with one caller, enqueue returns Full exactly when the queue holds
\* MSG_COUNT - 1 items; so on a fresh port MSG_COUNT - 1 enqueues return Ok, the
\* next returns Full, and one dequeue makes room for exactly one more.
CapacityRule ==
    [][Sequential =>
        \A t \in Threads :
            EnqDecides(t) =>
                ((pc'[t] = "idle" /\ ret'[t].kind = "full")
                    <=> (Len(Held(t)) = MSG_COUNT - 1))]_vars

\* MSG_COUNT - 1 enqueues, one dequeue, one more enqueue, and the next was refused.
CapacityRuleWitness ==
    /\ scenario = "seq"
    /\ nEnq = MSG_COUNT
    /\ nDeq = 1
    /\ ret[1] = [op |-> "enqueue", kind |-> "full", value |-> 0]

\* C4. Empty: with one caller, dequeue returns Empty exactly when read_index ==
\* write_index, which is exactly when the queue holds nothing: on a fresh port, and
\* after every item enqueued has been dequeued.
EmptyRule ==
    [][Sequential =>
        \A t \in Threads :
            DeqDecides(t) =>
                /\ ((pc'[t] = "idle" /\ ret'[t].kind = "empty")
                      <=> (Q(t).read_index = Q(t).write_index))
                /\ ((Q(t).read_index = Q(t).write_index) <=> (Held(t) = <<>>))]_vars

\* Three items in, three out, and the fourth dequeue returned Empty.
EmptyRuleWitness ==
    /\ scenario = "seq"
    /\ nEnq = 3
    /\ nDeq = 3
    /\ ret[1] = [op |-> "dequeue", kind |-> "empty", value |-> 0]

\* C5. Occupancy: with at most one producer and one consumer, in every state the
\* number of items a port holds is (write_index - read_index) mod MSG_COUNT and at
\* most MSG_COUNT - 1: equal cursors mean none held, write_index one behind
\* read_index means MSG_COUNT - 1 held.
Occupancy ==
    OneProducerOneConsumer =>
        \A r \in DOMAIN port :
            /\ Len(pending[r]) = (port[r].write_index - port[r].read_index) % MSG_COUNT
            /\ Len(pending[r]) <= MSG_COUNT - 1
            /\ (port[r].write_index = port[r].read_index) <=> (Len(pending[r]) = 0)
            /\ ((port[r].write_index + 1) % MSG_COUNT = port[r].read_index)
                  <=> (Len(pending[r]) = MSG_COUNT - 1)

\* A full port, after the first wrap, with both threads in the middle of a call.
OccupancyWitness ==
    /\ scenario = "spsc"
    /\ nEnq > MSG_COUNT
    /\ Len(pending[1]) = MSG_COUNT - 1
    /\ pc[1] = "enq_load_read"
    /\ pc[2] = "deq_read"

\* C6. A refused enqueue has no effect: the steps of an enqueue that returns Full
\* (the load of write_index, the comparison with read_index) change neither cursor
\* and no byte of the buffer, and the items held stay as they were.
EnqueueFullNoEffect ==
    [][\A t \in Threads :
          ((pc[t] = "enq_load_write" /\ pc'[t] = "enq_load_read")
              \/ (pc[t] = "enq_load_read" /\ pc'[t] = "idle"))
          => (port' = port /\ pending' = pending)]_vars

\* The producer was refused while the consumer was reading a slot.
EnqueueFullNoEffectWitness ==
    /\ scenario = "spsc"
    /\ ret[1] = [op |-> "enqueue", kind |-> "full", value |-> 0]
    /\ pc[1] = "idle"
    /\ pc[2] = "deq_store"

\* C7. Wraparound: once both cursors have passed index MSG_COUNT - 1 twice, with
\* one caller every successful operation still moves its cursor by one modulo
\* MSG_COUNT, dequeue still returns the oldest item held, Full is still returned at
\* exactly MSG_COUNT - 1 items and Empty at none, and the distance of the cursors
\* is still the number of items held.
WraparoundKeepsRules ==
    [][(Sequential /\ Wrapped) =>
        \A t \in Threads :
            /\ EnqDecides(t) =>
                  ((pc'[t] = "idle" /\ ret'[t].kind = "full")
                      <=> (Len(Held(t)) = MSG_COUNT - 1))
            /\ DeqDecides(t) =>
                  ((pc'[t] = "idle" /\ ret'[t].kind = "empty") <=> (Held(t) = <<>>))
            /\ EnqSucceeds(t) =>
                  /\ port'[thr[t].q].write_index = (Q(t).write_index + 1) % MSG_COUNT
                  /\ port'[thr[t].q].read_index = Q(t).read_index
            /\ DeqSucceeds(t) =>
                  /\ port'[thr[t].q].read_index = (Q(t).read_index + 1) % MSG_COUNT
                  /\ port'[thr[t].q].write_index = Q(t).write_index
                  /\ Held(t) # <<>>
                  /\ ret'[t] = OkDequeue(Head(Held(t)))
            /\ \A r \in DOMAIN port :
                  /\ Slice(port'[r]) = pending'[r]
                  /\ port'[r].write_index \in 0 .. MSG_COUNT - 1
                  /\ port'[r].read_index \in 0 .. MSG_COUNT - 1]_vars

\* After two full turns of both cursors the port is full again and the caller has
\* just been refused.
WraparoundKeepsRulesWitness ==
    /\ scenario = "seq"
    /\ Wrapped
    /\ Len(pending[1]) = MSG_COUNT - 1
    /\ ret[1] = [op |-> "enqueue", kind |-> "full", value |-> 0]

\* C8. Shared-binding identity: a dequeue_shared that starts when exactly one item
\* v has been accepted by enqueue_shared under the same name and not delivered
\* returns Ok(v), never Empty.
SharedBindingIdentity ==
    [][\A t \in Threads :
          (thr[t].sole # NoItem /\ (DeqDecides(t) \/ DeqSucceeds(t)))
          => /\ pc'[t] # "idle" \/ ret'[t] = OkDequeue(thr[t].sole)
             /\ DeqDecides(t) => pc'[t] = "deq_read"]_vars

\* C9. Construct-once: when the first calls of two threads with one name race, one
\* region is created and initialised, no caller fails on the other's region, and
\* every caller gets the same binding.
ConstructOnce ==
    scenario = "spsc_shared" =>
        /\ Len(port) <= 1
        /\ \A t \in Threads : ~(pc[t] = "panicked" /\ ret[t].kind = "exists")
        /\ \A t, u \in Threads : (thr[t].q # 0 /\ thr[u].q # 0) => thr[t].q = thr[u].q

\* C10. No re-initialisation: a call of get_shared_queue that starts after a first
\* call for its name has returned creates no region, returns the binding that first
\* call returned, and its lookup changes no cursor and no byte of any buffer.
NoReinitialisation ==
    [][\A t \in Threads :
          (thr[t].after # 0 /\ pc[t] = "gsq_check" /\ pc'[t] # pc[t])
          => /\ pc'[t] # "gsq_create"
             /\ pc'[t] = OpStart(thr[t].op) => thr'[t].q = thr[t].after
             /\ port' = port]_vars

\* C11. Per-name binding: a value that dequeue_shared returns under one name was
\* enqueued under that name, never under another (items are t*10 + j, so an
\* item names the thread, and with it the os_id, it was enqueued by).
PerNameBinding ==
    \A t \in Threads :
        (Shared /\ ret[t].op = "dequeue" /\ ret[t].kind = "ok"
            /\ ret[t].value \div 10 \in Threads)
        => NameOf(ret[t].value \div 10) = NameOf(t)

\* C12. Region failure is a returned error: a caller whose region the provider
\* could not create gets an error value back and goes on; it does not panic.
RegionFailureReturned ==
    \A t \in Threads :
        (ret[t].op = "get_shared_queue" /\ ret[t].kind = "unavailable")
        => pc[t] # "panicked"

\* C13. Non-blocking termination: in every state a thread that is in enqueue or
\* dequeue can take its next step, whatever the queue holds and wherever the
\* other threads stand; each of its steps leaves it fewer steps to go, at most
\* four in all, never back to an earlier one; and the call ends by returning Ok
\* or the error of its operation. (A process killed for touching an unmapped
\* region, the matter of C9, returns nothing.)
NonBlockingTermination ==
    [][\A t \in Threads :
          InPort(t) =>
             /\ ENABLED PortStep(t)
             /\ (pc'[t] # pc[t] /\ pc'[t] # "crashed") =>
                   /\ StepsLeft(pc'[t]) < StepsLeft(pc[t])
                   /\ pc'[t] = "idle" =>
                         /\ ret'[t].op = thr[t].op
                         /\ ret'[t].kind \in
                               {"ok", IF thr[t].op = "enqueue" THEN "full" ELSE "empty"}]_vars

\* The producer was refused on a full queue while the consumer stood still in the
\* middle of its first dequeue.
NonBlockingTerminationWitness ==
    /\ scenario = "spsc"
    /\ pc[1] = "idle"
    /\ ret[1] = [op |-> "enqueue", kind |-> "full", value |-> 0]
    /\ pc[2] = "deq_read"
    /\ nDeq = 0

\* C14. Slot hand-off: with one producer and one consumer, a producer about to
\* write a slot and a consumer about to read one never have the same slot of the
\* same queue in hand; the slot the consumer is about to read holds the oldest
\* item accepted, its write complete; and the slot the producer is about to write
\* is outside the slots of the items held, which the consumer has yet to read.
SlotHandOff ==
    OneProducerOneConsumer =>
        \A t, u \in Threads :
            /\ (pc[t] = "enq_write" /\ pc[u] = "deq_read" /\ thr[t].q = thr[u].q)
                  => thr[t].write # thr[u].read
            /\ pc[u] = "deq_read" =>
                  /\ Held(u) # <<>>
                  /\ ReadI32(Q(u).buffer, thr[u].read * MSG_SIZE) = Head(Held(u))
            /\ pc[t] = "enq_write" =>
                  /\ Len(Held(t)) < MSG_COUNT - 1
                  /\ (thr[t].write - Q(t).read_index) % MSG_COUNT = Len(Held(t))

\* The producer is about to write a slot and the consumer about to read the slot
\* two after it, round the end of the buffer: the queue held fourteen items.
SlotHandOffWitness ==
    /\ scenario = "spsc"
    /\ pc[1] = "enq_write"
    /\ pc[2] = "deq_read"
    /\ thr[2].read < thr[1].write
    /\ (thr[1].write + 2) % MSG_COUNT = thr[2].read
    /\ nEnq > MSG_COUNT

\* C15. Not sufficient for two producers: in the stress test, whenever an enqueue
\* returns Ok after another producer has moved write_index since this call loaded
\* it, the store leaves fewer slots between the cursors than values were accepted
\* with Ok: a value accepted is lost (two calls wrote one slot, or write_index was
\* put back over a slot written). The witness is the interleaving in which both
\* calls wrote slot 0.
TwoProducersLoseValue ==
    [][\A t \in Threads :
          (EnqSucceeds(t) /\ Q(t).write_index # thr[t].write) =>
             /\ ret'[t].kind = "ok"
             /\ port'[thr[t].q].write_index = (thr[t].write + 1) % MSG_COUNT
             /\ Distance(port'[thr[t].q]) < nEnq' - nDeq']_vars

\* Both producers made one call, both calls returned Ok, both wrote slot 0:
\* write_index is 1 and slot 0 holds the item of one of them only.
TwoProducersLoseValueWitness ==
    /\ scenario = "stress"
    /\ \A t \in {1, 2} :
          /\ pc[t] = "idle"
          /\ budget[t] = MaxCalls - 1
          /\ ret[t] = [op |-> "enqueue", kind |-> "ok", value |-> 0]
    /\ nEnq = 2
    /\ SHARED_QUEUE_PTR # 0
    /\ port[SHARED_QUEUE_PTR].write_index = 1
    /\ Slice(port[SHARED_QUEUE_PTR]) \in {<<10>>, <<20>>}

\* C16. Not sufficient for two consumers: in the stress test, whenever a dequeue
\* returns Ok after another consumer has moved read_index since this call loaded
\* it, the call returns the value of the slot it loaded, and more values have then
\* been delivered with Ok than read_index counts: the deliveries made and the
\* slots still to be delivered together exceed the slots published, so the value
\* of one slot is delivered twice. The witness is the interleaving in which both
\* calls delivered slot 0.
TwoConsumersDeliverTwice ==
    [][\A t \in Threads :
          (DeqSucceeds(t) /\ Q(t).read_index # thr[t].read) =>
             /\ ret'[t] = OkDequeue(ReadI32(Q(t).buffer, thr[t].read * MSG_SIZE))
             /\ port'[thr[t].q].read_index = (thr[t].read + 1) % MSG_COUNT
             /\ nDeq' > port'[thr[t].q].read_index]_vars

\* Both consumers made one call and both were given the item of slot 0.
TwoConsumersDeliverTwiceWitness ==
    /\ scenario = "stress"
    /\ \A t \in {3, 4} :
          /\ pc[t] = "idle"
          /\ budget[t] = MaxCalls - 1
    /\ ret[3].kind = "ok"
    /\ ret[3].value \in {10, 20}
    /\ ret[4] = ret[3]
    /\ nDeq = 2
    /\ port[SHARED_QUEUE_PTR].read_index = 1

\* C17. Cursor range: in every reachable state of every program, the stress test
\* among them, write_index and read_index of every port are in 0 .. MSG_COUNT - 1,
\* and so are the cursors a call has loaded or is about to store; the slot a
\* call is about to write or read lies whole inside the buffer.
CursorRange ==
    /\ \A r \in 1 .. Len(port) :
          /\ port[r].write_index \in 0 .. MSG_COUNT - 1
          /\ port[r].read_index \in 0 .. MSG_COUNT - 1
          /\ InBounds(port[r].write_index, port[r].buffer)
          /\ InBounds(port[r].read_index, port[r].buffer)
    /\ \A t \in Threads :
          /\ pc[t] = "enq_write" => InBounds(thr[t].write, Q(t).buffer)
          /\ pc[t] = "enq_store" => thr[t].next \in 0 .. MSG_COUNT - 1
          /\ pc[t] = "deq_read" => InBounds(thr[t].read, Q(t).buffer)
          /\ pc[t] = "deq_store" => thr[t].read \in 0 .. MSG_COUNT - 1

\* The producer is about to write the last slot of the buffer, for the second
\* time, while the consumer is about to read one.
CursorRangeWitness ==
    /\ scenario = "spsc"
    /\ pc[1] = "enq_write"
    /\ thr[1].write = MSG_COUNT - 1
    /\ thr[1].next = 0
    /\ pc[2] = "deq_read"
    /\ nEnq > MSG_COUNT

\* C18. A refused dequeue has no effect: the steps of a dequeue that returns
\* Empty (the load of read_index, the comparison with write_index) change neither
\* cursor of any port and no byte of a buffer, and the items held stay as they
\* were, so an item enqueued afterwards is still the next one delivered.
DequeueEmptyNoEffect ==
    [][\A t \in Threads :
          ((pc[t] = "deq_load_read" /\ pc'[t] = "deq_load_write")
              \/ (pc[t] = "deq_load_write" /\ pc'[t] = "idle"))
          => /\ port' = port
             /\ pending' = pending
             /\ nDeq' = nDeq
             /\ pc'[t] = "idle" =>
                   ret'[t] = [op |-> "dequeue", kind |-> "empty", value |-> 0]]_vars

\* The consumer was refused while the producer's first item was in its slot and
\* write_index not yet stored.
DequeueEmptyNoEffectWitness ==
    /\ scenario = "spsc"
    /\ ret[2] = [op |-> "dequeue", kind |-> "empty", value |-> 0]
    /\ pc[2] = "idle"
    /\ pc[1] = "enq_store"
    /\ nEnq = 0
    /\ port[1].read_index = 0
    /\ ReadI32(port[1].buffer, 0) = 10

\* C19. Role-private cursors: of the steps of a call, the write of the item
\* changes only the MSG_SIZE bytes of the slot at the write_index the call loaded
\* (the write_index of the port, with one producer), the store of enqueue changes
\* only write_index, the store of dequeue changes only read_index and leaves the
\* value delivered in its slot, and every other step changes nothing of any port.
RolePrivateCursors ==
    [][\A t \in Threads :
          (InPort(t) /\ pc'[t] # pc[t] /\ pc'[t] # "crashed") =>
             LET q == thr[t].q
                 slot == {thr[t].write * MSG_SIZE + k : k \in 0 .. MSG_SIZE - 1}
             IN  /\ Len(port') = Len(port)
                 /\ \A r \in 1 .. Len(port) : r # q => port'[r] = port[r]
                 /\ CASE pc[t] = "enq_write" ->
                           /\ port'[q].write_index = port[q].write_index
                           /\ port'[q].read_index = port[q].read_index
                           /\ \A i \in DOMAIN port[q].buffer :
                                 i \notin slot => port'[q].buffer[i] = port[q].buffer[i]
                           /\ ReadI32(port'[q].buffer, thr[t].write * MSG_SIZE) = thr[t].item
                           /\ OneProducerOneConsumer => thr[t].write = port[q].write_index
                      [] pc[t] = "enq_store" ->
                           /\ port'[q] = [port[q] EXCEPT
                                             !.write_index = (thr[t].write + 1) % MSG_COUNT]
                           /\ ret'[t].kind = "ok"
                      [] pc[t] = "deq_store" ->
                           /\ port'[q] = [port[q] EXCEPT
                                             !.read_index = (thr[t].read + 1) % MSG_COUNT]
                           /\ ret'[t].kind = "ok"
                           /\ OneProducerOneConsumer =>
                                 ReadI32(port'[q].buffer, thr[t].read * MSG_SIZE)
                                    = ret'[t].value
                      [] OTHER -> port'[q] = port[q]]_vars

\* The one item enqueued has been delivered and is still in slot 0, which is
\* free: both cursors are 1.
RolePrivateCursorsWitness ==
    /\ scenario = "spsc"
    /\ nEnq = 1
    /\ nDeq = 1
    /\ pc[2] = "idle"
    /\ ret[2] = OkDequeue(10)
    /\ port[1].read_index = 1
    /\ port[1].write_index = 1
    /\ ReadI32(port[1].buffer, 0) = 10

\* C20. No spurious failure: with one producer and one consumer running
\* concurrently, at the step in which an enqueue returns Full the queue holds
\* MSG_COUNT - 1 items, and at the step in which a dequeue returns Empty it holds
\* none; and while a dequeue has not made its empty test, a queue that holds an
\* item accepted with Ok goes on holding one and the dequeue does not return
\* Empty, so a dequeue begun after that Ok returns an item.
NoSpuriousFailure ==
    [][OneProducerOneConsumer =>
        \A t \in Threads :
            /\ (EnqDecides(t) /\ pc'[t] = "idle") =>
                  /\ ret'[t].kind = "full"
                  /\ Len(Held(t)) = MSG_COUNT - 1
            /\ (DeqDecides(t) /\ pc'[t] = "idle") =>
                  /\ ret'[t].kind = "empty"
                  /\ Held(t) = <<>>
            /\ (pc[t] \in {"deq_load_read", "deq_load_write"} /\ Held(t) # <<>>) =>
                  /\ pending'[thr[t].q] # <<>>
                  /\ pc'[t] # "idle"]_vars

\* The producer was refused with fifteen items held while the consumer, having
\* loaded read_index, had yet to make its empty test.
NoSpuriousFailureWitness ==
    /\ scenario = "spsc"
    /\ pc[1] = "idle"
    /\ ret[1] = [op |-> "enqueue", kind |-> "full", value |-> 0]
    /\ pc[2] = "deq_load_write"
    /\ Len(pending[1]) = MSG_COUNT - 1
    /\ nDeq > 0

====
